---- MODULE Spec2Model ----
(***************************************************************************)
(* GoogleSheetsUpdater (src/src/text_spliter/update_google_sheets.py):     *)
(* fills column L of a sheet with the URL that a text_id -> URL mapping    *)
(* holds for the text_id in column J, skipping rows that already have a    *)
(* value, and records the text_ids the mapping does not hold.              *)
(*                                                                         *)
(* Strings are sequences of one-character strings, so that str.strip() is  *)
(* computed and not assumed.  A run of update_sheet_range is sequential    *)
(* and synchronous, hence one action; the remote store answers each of its *)
(* two requests either normally or with an HttpError.  Writing the local   *)
(* missing_text_ids.json is taken to succeed (lines 194-195 only log).     *)
(***************************************************************************)
EXTENDS Integers, Sequences, FiniteSets, TLC

\* ------------------------------------------------------------------ bounds
MaxRow == 2      \* rows of the sheet (and of the configured range)
MaxRuns == 2     \* calls of update_sheet_range in one behaviour
MaxLen == 3      \* rows given to the loop in SpecLoop

\* ----------------------------------------------------------------- strings
EmptyStr == << >>
Whitespace == {" "}

RECURSIVE LStrip(_)
LStrip(s) ==
    IF s # << >> /\ Head(s) \in Whitespace THEN LStrip(Tail(s)) ELSE s

RECURSIVE RStrip(_)
RStrip(s) ==
    IF s # << >> /\ s[Len(s)] \in Whitespace
    THEN RStrip(SubSeq(s, 1, Len(s) - 1))
    ELSE s

\* str.strip()
Strip(s) == RStrip(LStrip(s))

\* Python truth value of a str / list / dict
Truthy(s) == Len(s) > 0

\* ------------------------------------------------------------ the mapping
EmptyMapping == [k \in {} |-> EmptyStr]

\* load_url_mapping: {} when the file is missing or json.load raises
LoadUrlMapping(file) ==
    IF file.kind = "missing" THEN EmptyMapping
    ELSE IF file.kind = "unparsable" THEN EmptyMapping
    ELSE file.obj

\* variant: the emptiness check left out
MappingUsable_NoCheck(url_mapping) == TRUE

\* `if not url_mapping` (line 210) is not taken
MappingUsable(url_mapping) == DOMAIN url_mapping # {}

\* ------------------------------------------------------- the remote store
RECURSIVE DropTrailing(_, _)
DropTrailing(seq, empty) ==
    IF seq # << >> /\ seq[Len(seq)] = empty
    THEN DropTrailing(SubSeq(seq, 1, Len(seq) - 1), empty)
    ELSE seq

\* spreadsheets().values().get(range = J{start}:L{end}): one list per row,
\* trailing empty cells of a row and trailing empty rows left out.
ValuesGet(sh, start, end) ==
    DropTrailing(
        [n \in 1..(end - start + 1) |->
            LET r == sh[start + n - 1]
            IN  DropTrailing(<<r.J, r.K, r.L>>, EmptyStr)],
        << >>)

\* spreadsheets().values().batchUpdate(data): every range of the request is
\* set to its value.
RECURSIVE BatchUpdate(_, _)
BatchUpdate(sh, data) ==
    IF data = << >> THEN sh
    ELSE BatchUpdate([sh EXCEPT ![Head(data).row].L = Head(data).value],
                     Tail(data))

\* --------------------------------------------------------- read_sheet_range
TextIdOf(row) == IF Len(row) > 0 THEN row[1] ELSE EmptyStr
ExistingUrlOf(row) == IF Len(row) > 2 THEN row[3] ELSE EmptyStr

\* variant: rows without cells are dropped, which shifts the offsets
ReadSheetRange_DropEmptyRows(sh, start, end, remote_ok) ==
    IF ~remote_ok
    THEN [text_ids |-> << >>, existing_urls |-> << >>, requests |-> 1]
    ELSE LET values == SelectSeq(ValuesGet(sh, start, end),
                                 LAMBDA row : row # << >>)
         IN  [text_ids |-> [n \in 1..Len(values) |-> TextIdOf(values[n])],
              existing_urls |->
                  [n \in 1..Len(values) |-> ExistingUrlOf(values[n])],
              requests |-> 1]

\* the two lists, or two empty lists when the request raises HttpError
ReadSheetRange(sh, start, end, remote_ok) ==
    IF ~remote_ok
    THEN [text_ids |-> << >>, existing_urls |-> << >>, requests |-> 1]
    ELSE LET values == ValuesGet(sh, start, end)
         IN  [text_ids |-> [n \in 1..Len(values) |-> TextIdOf(values[n])],
              existing_urls |->
                  [n \in 1..Len(values) |-> ExistingUrlOf(values[n])],
              requests |-> 1]

\* variant: the emptiness check left out
HasData_NoCheck(text_ids) == TRUE

\* `if not text_ids` (line 217) is not taken
HasData(text_ids) == Truthy(text_ids)

\* ------------------------------------------------ the loop of lines 226-244
\* the locals of the loop, and self.missing_text_ids
LoopStart(missing) ==
    [urls_to_update |-> << >>, skipped_existing |-> 0, missing_count |-> 0,
     missing_text_ids |-> missing]

\* variant: the key is looked up stripped
ProcessRow_LookupStripped(i, text_id, existing_url, url_mapping, acc) ==
    IF ~Truthy(Strip(text_id)) THEN acc
    ELSE IF Truthy(Strip(existing_url))
    THEN [acc EXCEPT !.skipped_existing = @ + 1]
    ELSE IF Strip(text_id) \in DOMAIN url_mapping
    THEN [acc EXCEPT !.urls_to_update =
                         Append(@, <<i, url_mapping[Strip(text_id)]>>)]
    ELSE [acc EXCEPT !.missing_text_ids = Append(@, text_id),
                     !.missing_count = @ + 1]

\* variant: a filled row is skipped only when the mapping lacks its key
ProcessRow_Overwrite(i, text_id, existing_url, url_mapping, acc) ==
    IF ~Truthy(Strip(text_id)) THEN acc
    ELSE IF Truthy(Strip(existing_url)) /\ text_id \notin DOMAIN url_mapping
    THEN [acc EXCEPT !.skipped_existing = @ + 1]
    ELSE IF text_id \in DOMAIN url_mapping
    THEN [acc EXCEPT !.urls_to_update = Append(@, <<i, url_mapping[text_id]>>)]
    ELSE [acc EXCEPT !.missing_text_ids = Append(@, text_id),
                     !.missing_count = @ + 1]

\* variant: blank keys are not skipped
ProcessRow_NoEmptyKeySkip(i, text_id, existing_url, url_mapping, acc) ==
    IF Truthy(Strip(existing_url))
    THEN [acc EXCEPT !.skipped_existing = @ + 1]
    ELSE IF text_id \in DOMAIN url_mapping
    THEN [acc EXCEPT !.urls_to_update = Append(@, <<i, url_mapping[text_id]>>)]
    ELSE [acc EXCEPT !.missing_text_ids = Append(@, text_id),
                     !.missing_count = @ + 1]

\* the body of the loop for offset i (0-based)
ProcessRow(i, text_id, existing_url, url_mapping, acc) ==
    IF ~Truthy(Strip(text_id)) THEN acc
    ELSE IF Truthy(Strip(existing_url))
    THEN [acc EXCEPT !.skipped_existing = @ + 1]
    ELSE IF text_id \in DOMAIN url_mapping
    THEN [acc EXCEPT !.urls_to_update = Append(@, <<i, url_mapping[text_id]>>)]
    ELSE [acc EXCEPT !.missing_text_ids = Append(@, text_id),
                     !.missing_count = @ + 1]

Min(a, b) == IF a < b THEN a ELSE b

\* enumerate(zip(text_ids, existing_urls)) from offset i on
RECURSIVE ProcessRows(_, _, _, _, _)
ProcessRows(i, text_ids, existing_urls, url_mapping, acc) ==
    IF i >= Min(Len(text_ids), Len(existing_urls)) THEN acc
    ELSE ProcessRows(i + 1, text_ids, existing_urls, url_mapping,
                     ProcessRow(i, text_ids[i + 1], existing_urls[i + 1],
                                url_mapping, acc))

\* --------------------------------------------------------- update_sheet_urls
\* variant: the offset is taken for the row number
BatchData_NoStartRow(start, urls_to_update) ==
    [n \in 1..Len(urls_to_update) |->
        [row |-> urls_to_update[n][1] + 1, value |-> urls_to_update[n][2]]]

\* the `data` of the batch: one entry per (row_offset, url)
BatchData(start, urls_to_update) ==
    [n \in 1..Len(urls_to_update) |->
        [row |-> start + urls_to_update[n][1], value |-> urls_to_update[n][2]]]

\* variant: a rejected batch has written its first cell
UpdateSheetUrls_PartialCommit(start, urls_to_update, sh, remote_ok) ==
    IF ~Truthy(urls_to_update)
    THEN [sheet |-> sh, data |-> << >>, requests |-> 0, log |-> "noop",
          ret |-> "None"]
    ELSE LET data == BatchData(start, urls_to_update)
         IN  IF remote_ok
             THEN [sheet |-> BatchUpdate(sh, data), data |-> data,
                   requests |-> 1, log |-> "ok", ret |-> "None"]
             ELSE [sheet |-> BatchUpdate(sh, <<Head(data)>>), data |-> data,
                   requests |-> 1, log |-> "failed", ret |-> "None"]

\* The method has no return statement with a value: every path yields None.
\* `log` is the message the path logs.
UpdateSheetUrls(start, urls_to_update, sh, remote_ok) ==
    IF ~Truthy(urls_to_update)
    THEN [sheet |-> sh, data |-> << >>, requests |-> 0, log |-> "noop",
          ret |-> "None"]
    ELSE LET data == BatchData(start, urls_to_update)
         IN  IF remote_ok
             THEN [sheet |-> BatchUpdate(sh, data), data |-> data,
                   requests |-> 1, log |-> "ok", ret |-> "None"]
             ELSE [sheet |-> sh, data |-> data,
                   requests |-> 1, log |-> "failed", ret |-> "None"]

\* ----------------------------------------------------- save_missing_text_ids
NoFile == [exists |-> FALSE, content |-> << >>]

SaveMissingTextIds(missing, file) ==
    IF ~Truthy(missing)
    THEN [file |-> file, log |-> "noop"]
    ELSE [file |-> [exists |-> TRUE, content |-> missing], log |-> "saved"]

\* -------------------------------------------------------- update_sheet_range
\* variant: the miss list is saved only when the write did not fail
WriteThenSave_SaveOnSuccess(start, urls_to_update, sh, missing, mfile, write_ok) ==
    LET wr == UpdateSheetUrls(start, urls_to_update, sh, write_ok)
    IN  [wr |-> wr,
         sv |-> IF wr.log = "failed"
                THEN [file |-> mfile, log |-> "none"]
                ELSE SaveMissingTextIds(missing, mfile)]

\* lines 246-250: self.update_sheet_urls(...), then self.save_missing_text_ids()
WriteThenSave(start, urls_to_update, sh, missing, mfile, write_ok) ==
    [wr |-> UpdateSheetUrls(start, urls_to_update, sh, write_ok),
     sv |-> SaveMissingTextIds(missing, mfile)]

\* what a call leaves behind: its locals, its requests and its log
NoRun ==
    [stage |-> "none",
     url_mapping |-> EmptyMapping,
     text_ids |-> << >>, existing_urls |-> << >>,
     urls_to_update |-> << >>, skipped_existing |-> 0, missing_count |-> 0,
     read_requests |-> 0, write_requests |-> 0, data |-> << >>,
     write_log |-> "none", write_ret |-> "unset", save_log |-> "none",
     reported_updated |-> 0, missing_after |-> << >>]

UpdateSheetRange(start, end, file, sh, missing, mfile, read_ok, write_ok) ==
    LET url_mapping == LoadUrlMapping(file)
        base == [NoRun EXCEPT !.url_mapping = url_mapping,
                              !.missing_after = missing]
    IN
    IF ~MappingUsable(url_mapping)
    THEN [sheet |-> sh, missing_text_ids |-> missing, missing_file |-> mfile,
          run |-> [base EXCEPT !.stage = "no_mapping"]]
    ELSE
    LET rd == ReadSheetRange(sh, start, end, read_ok)
        got == [base EXCEPT !.text_ids = rd.text_ids,
                            !.existing_urls = rd.existing_urls,
                            !.read_requests = rd.requests]
    IN
    IF ~HasData(rd.text_ids)
    THEN [sheet |-> sh, missing_text_ids |-> missing, missing_file |-> mfile,
          run |-> [got EXCEPT !.stage = "no_data"]]
    ELSE
    LET acc == ProcessRows(0, rd.text_ids, rd.existing_urls, url_mapping,
                           LoopStart(missing))
        ws == WriteThenSave(start, acc.urls_to_update, sh,
                            acc.missing_text_ids, mfile, write_ok)
        wr == ws.wr
        sv == ws.sv
    IN  [sheet |-> wr.sheet,
         missing_text_ids |-> acc.missing_text_ids,
         missing_file |-> sv.file,
         run |-> [got EXCEPT !.stage = "done",
                             !.urls_to_update = acc.urls_to_update,
                             !.skipped_existing = acc.skipped_existing,
                             !.missing_count = acc.missing_count,
                             !.write_requests = wr.requests,
                             !.data = wr.data,
                             !.write_log = wr.log,
                             !.write_ret = wr.ret,
                             !.save_log = sv.log,
                             !.reported_updated = Len(acc.urls_to_update),
                             !.missing_after = acc.missing_text_ids]]

\* --------------------------------------------------------------- the state
VARIABLES
    sheet,              \* the remote sheet: row -> its cells in columns J, K, L
    start_row, end_row, \* config['start_row'], config['end_row']
    mapping_file,       \* the mapping file on disk
    missing_text_ids,   \* self.missing_text_ids
    missing_file,       \* google_sheets_update_output/missing_text_ids.json
    runs,               \* calls of update_sheet_range so far
    prev,               \* what the call before the last one left behind
    sheet_before,       \* the sheet as the last call found it
    missing_before,     \* self.missing_text_ids as the last call found it
    file_before,        \* missing_text_ids.json as the last call found it
    run                 \* what the last call left behind

vars == <<sheet, start_row, end_row, mapping_file, missing_text_ids,
          missing_file, runs, prev, sheet_before, missing_before, file_before,
          run>>

StrA == <<"a">>
StrB == <<"b">>
StrSpA == <<" ", "a">>
StrSp == <<" ">>
UrlU == <<"u">>
UrlV == <<"v">>
UrlX == <<"x">>

\* rows the sheet may hold when the program starts
SheetRows ==
    { [J |-> j, K |-> kl[1], L |-> kl[2]] :
        j \in {EmptyStr, StrA, StrB},
        kl \in {<<EmptyStr, EmptyStr>>, <<<<"k">>, EmptyStr>>,
                <<EmptyStr, UrlX>>, <<EmptyStr, StrSp>>} }

\* what the mapping file may be
MappingFiles ==
    { [kind |-> "missing", obj |-> EmptyMapping],
      [kind |-> "unparsable", obj |-> EmptyMapping],
      [kind |-> "object", obj |-> EmptyMapping],
      [kind |-> "object", obj |-> (StrA :> UrlU)],
      [kind |-> "object", obj |-> (StrB :> UrlV)],
      [kind |-> "object", obj |-> (StrA :> EmptyStr) @@ (StrB :> UrlV)] }

Init ==
    /\ sheet \in [1..MaxRow -> SheetRows]
    /\ start_row \in 1..MaxRow
    /\ end_row \in start_row..MaxRow
    /\ mapping_file \in MappingFiles
    /\ missing_text_ids = << >>
    /\ missing_file = NoFile
    /\ runs = 0
    /\ prev = NoRun
    /\ sheet_before = sheet
    /\ missing_before = << >>
    /\ file_before = NoFile
    /\ run = NoRun

\* updater.update_sheet_range(start_row, end_row, mapping_file)
Run ==
    /\ runs < MaxRuns
    /\ \E read_ok \in BOOLEAN, write_ok \in BOOLEAN :
         LET r == UpdateSheetRange(start_row, end_row, mapping_file, sheet,
                                   missing_text_ids, missing_file,
                                   read_ok, write_ok)
         IN  /\ sheet' = r.sheet
             /\ missing_text_ids' = r.missing_text_ids
             /\ missing_file' = r.missing_file
             /\ run' = r.run
    /\ runs' = runs + 1
    /\ prev' = run
    /\ sheet_before' = sheet
    /\ missing_before' = missing_text_ids
    /\ file_before' = missing_file
    /\ UNCHANGED <<start_row, end_row, mapping_file>>

\* main() run again: GoogleSheetsUpdater.__init__ sets missing_text_ids = []
NewUpdater ==
    /\ runs > 0
    /\ runs < MaxRuns
    /\ missing_text_ids # << >>
    /\ missing_text_ids' = << >>
    /\ UNCHANGED <<sheet, start_row, end_row, mapping_file, missing_file,
                   runs, prev, sheet_before, missing_before, file_before, run>>

Next == Run \/ NewUpdater

Spec == Init /\ [][Next]_vars

\* ------------------------------------------- the loop on inputs of its own
LoopTextIds == {EmptyStr, StrSp, StrA, StrSpA}
LoopUrls == {EmptyStr, StrSp, UrlX}
LoopMappings ==
    { EmptyMapping,
      (StrA :> UrlU),
      (StrSpA :> UrlV),
      (StrA :> UrlU) @@ (StrSpA :> UrlV),
      (StrA :> EmptyStr) }

EmptySheet == [r \in 1..MaxRow |-> [J |-> EmptyStr, K |-> EmptyStr, L |-> EmptyStr]]

InitLoop ==
    /\ sheet = EmptySheet
    /\ start_row = 1
    /\ end_row = 1
    /\ mapping_file = [kind |-> "missing", obj |-> EmptyMapping]
    /\ missing_text_ids = << >>
    /\ missing_file = NoFile
    /\ runs = 0
    /\ prev = NoRun
    /\ sheet_before = EmptySheet
    /\ missing_before = << >>
    /\ file_before = NoFile
    /\ run = NoRun

\* lines 222-244 on a fresh object, for any two lists of one length and any
\* mapping
Reconcile ==
    /\ runs = 0
    /\ \E n \in 0..MaxLen :
         \E text_ids \in [1..n -> LoopTextIds],
            existing_urls \in [1..n -> LoopUrls],
            url_mapping \in LoopMappings :
           LET acc == ProcessRows(0, text_ids, existing_urls, url_mapping,
                                  LoopStart(missing_text_ids))
           IN  /\ missing_text_ids' = acc.missing_text_ids
               /\ run' = [NoRun EXCEPT
                            !.stage = "loop",
                            !.url_mapping = url_mapping,
                            !.text_ids = text_ids,
                            !.existing_urls = existing_urls,
                            !.urls_to_update = acc.urls_to_update,
                            !.skipped_existing = acc.skipped_existing,
                            !.missing_count = acc.missing_count,
                            !.missing_after = acc.missing_text_ids]
    /\ runs' = 1
    /\ UNCHANGED <<sheet, start_row, end_row, mapping_file, missing_file,
                   prev, sheet_before, missing_before, file_before>>

NextLoop == Reconcile

SpecLoop == InitLoop /\ [][NextLoop]_vars

\* ------------------------------------------------ the rule the claims state
IsBlank(s) == \A n \in 1..Len(s) : s[n] \in Whitespace

Decision(key, existing, mapping) ==
    IF IsBlank(key) THEN "SkipEmptyKey"
    ELSE IF ~IsBlank(existing) THEN "SkipHasValue"
    ELSE IF key \in DOMAIN mapping THEN "Update"
    ELSE "Miss"

Offsets(n) == [k \in 1..n |-> k - 1]

OffsetsDecided(keys, existing, mapping, d) ==
    SelectSeq(Offsets(Len(keys)),
              LAMBDA i : Decision(keys[i + 1], existing[i + 1], mapping) = d)

RuleUpdates(keys, existing, mapping) ==
    LET upd == OffsetsDecided(keys, existing, mapping, "Update")
    IN  [n \in 1..Len(upd) |-> <<upd[n], mapping[keys[upd[n] + 1]]>>]

RuleMisses(keys, existing, mapping) ==
    LET mis == OffsetsDecided(keys, existing, mapping, "Miss")
    IN  [n \in 1..Len(mis) |-> keys[mis[n] + 1]]

\* the keys the last call appended to self.missing_text_ids
RunMisses ==
    SubSeq(run.missing_after, Len(missing_before) + 1, Len(run.missing_after))

Reconciled == run.stage \in {"loop", "done"}

Count(seq, x) == Cardinality({n \in 1..Len(seq) : seq[n] = x})

\* the rows of the configured range, as the last call found them
RangeOffsets == 0..(end_row - start_row)
KeyAt(i) == sheet_before[start_row + i].J
ExistingAt(i) == sheet_before[start_row + i].L

\* C1: the loop yields exactly the updates and the misses of the four-step
\* rule (blank key: nothing; else non-blank existing value: nothing; else key
\* as read in the mapping: (i, mapping[key]); else the key is a miss), both
\* in increasing offset order.
C1_LoopFollowsRule ==
    Reconciled =>
        /\ run.urls_to_update =
               RuleUpdates(run.text_ids, run.existing_urls, run.url_mapping)
        /\ RunMisses =
               RuleMisses(run.text_ids, run.existing_urls, run.url_mapping)
        /\ \A m, n \in 1..Len(run.urls_to_update) :
               m < n => run.urls_to_update[m][1] < run.urls_to_update[n][1]

\* Scenario A's rows (empty, filled, empty) with a third key that differs
\* from the mapped one only by a leading blank: row 0 updated, row 2 a miss.
C1_Witness ==
    /\ run.stage = "loop"
    /\ run.text_ids = <<StrA, StrA, StrSpA>>
    /\ run.existing_urls = <<EmptyStr, UrlX, EmptyStr>>
    /\ run.url_mapping = (StrA :> UrlU)
    /\ run.urls_to_update = <<<<0, UrlU>>>>
    /\ RunMisses = <<StrSpA>>

\* C8: every row lands in exactly one of skipped / update / miss:
\* len(updates) + len(misses) + skipped = len(keys), the code's own counters
\* agree, and no updated offset's key is among the misses.
C8_Partition ==
    Reconciled =>
        LET n == Len(run.text_ids)
            skipped == Cardinality({k \in 1..n :
                          \/ IsBlank(run.text_ids[k])
                          \/ ~IsBlank(run.existing_urls[k])})
            has_value == Cardinality({k \in 1..n :
                          /\ ~IsBlank(run.text_ids[k])
                          /\ ~IsBlank(run.existing_urls[k])})
        IN  /\ Len(run.existing_urls) = n
            /\ Len(run.urls_to_update) + Len(RunMisses) + skipped = n
            /\ run.missing_count = Len(RunMisses)
            /\ run.skipped_existing = has_value
            /\ \A u \in 1..Len(run.urls_to_update) :
                 \A m \in 1..Len(RunMisses) :
                   run.text_ids[run.urls_to_update[u][1] + 1] # RunMisses[m]

\* all three buckets occupied in one input
C8_Witness ==
    /\ run.stage = "loop"
    /\ Len(run.text_ids) = 3
    /\ Len(run.urls_to_update) = 1
    /\ Len(RunMisses) = 1
    /\ run.skipped_existing = 1

\* C2: a row whose existing value is non-blank after trimming gets no update
\* and contributes no miss, whatever the mapping holds for its key; the batch
\* never targets a cell the read returned as non-blank.
C2_FilledRowsSkipped ==
    Reconciled =>
        /\ \A k \in 1..Len(run.text_ids) :
             ~IsBlank(run.existing_urls[k]) =>
                 \A u \in 1..Len(run.urls_to_update) :
                     run.urls_to_update[u][1] # k - 1
        /\ \A key \in {RunMisses[m] : m \in 1..Len(RunMisses)} :
             Count(RunMisses, key) <=
                 Cardinality({k \in 1..Len(run.text_ids) :
                                 /\ run.text_ids[k] = key
                                 /\ IsBlank(run.existing_urls[k])})
        /\ \A d \in 1..Len(run.data) :
             IsBlank(sheet_before[run.data[d].row].L)

\* a filled row whose key the mapping holds with another value, next to a
\* row that the same batch did write
C2_Witness ==
    /\ run.stage = "done"
    /\ run.write_log = "ok"
    /\ \E k \in 1..Len(run.text_ids) :
         /\ run.text_ids[k] \in DOMAIN run.url_mapping
         /\ ~IsBlank(run.existing_urls[k])
         /\ run.url_mapping[run.text_ids[k]] # run.existing_urls[k]
         /\ sheet[start_row + k - 1].L = run.existing_urls[k]

\* C3 as stated: once a call has completed and its batch has landed, the
\* next call over the same range with the same mapping (any string values)
\* finds nothing to update and issues no batch write.
C3_SecondRunNoUpdates ==
    (prev.stage = "done" /\ prev.write_log = "ok") =>
        /\ run.urls_to_update = << >>
        /\ run.write_requests = 0

\* every URL the call before the last one wrote is non-blank after trimming
PrevWroteNonBlank ==
    \A d \in 1..Len(prev.data) : ~IsBlank(prev.data[d].value)

\* C3 amended: the same, for a first call all of whose written URLs are
\* non-blank after trimming.
C3_SecondRunNoUpdatesNonBlank ==
    (prev.stage = "done" /\ prev.write_log = "ok" /\ PrevWroteNonBlank) =>
        /\ run.urls_to_update = << >>
        /\ run.write_requests = 0

\* the second call read the rows, skipped what the first one filled, and
\* its write was the no-op
C3_Witness ==
    /\ prev.stage = "done"
    /\ prev.write_log = "ok"
    /\ PrevWroteNonBlank
    /\ run.stage = "done"
    /\ run.skipped_existing >= Len(prev.data)
    /\ run.write_log = "noop"

\* C4: whenever a call saves the miss log, the file holds exactly the keys
\* this call classified as Miss, in row order.
C4_SavedFileIsThisRunsMisses ==
    run.save_log = "saved" => missing_file.content = RunMisses

\* the value update_sheet_urls returns for an empty list
NoopReturn == UpdateSheetUrls(1, << >>, sheet, TRUE).ret

\* C5: a rejected batch write is reported to update_sheet_range by an outcome
\* distinct from that of the no-op, and the call does not report its updates
\* as applied.
C5_FailureDistinctFromNoop ==
    (run.stage = "done" /\ run.write_log = "failed") =>
        /\ run.write_ret # NoopReturn
        /\ run.reported_updated = 0

NoMappingLoadable ==
    \/ mapping_file.kind \in {"missing", "unparsable"}
    \/ DOMAIN mapping_file.obj = {}

\* C7: with an empty loaded mapping the call ends before the range read and
\* the batch write: no request reaches the store, and the miss log is
\* neither created nor modified.
C7_EmptyMappingAborts ==
    (runs > 0 /\ NoMappingLoadable) =>
        /\ run.stage = "no_mapping"
        /\ run.read_requests = 0
        /\ run.write_requests = 0
        /\ run.save_log = "none"
        /\ missing_file = file_before
        /\ sheet = sheet_before

\* the range holds a row the call would have updated or recorded
C7_Witness ==
    /\ runs > 0
    /\ mapping_file.kind = "unparsable"
    /\ run.stage = "no_mapping"
    /\ \E i \in RangeOffsets : ~IsBlank(KeyAt(i)) /\ IsBlank(ExistingAt(i))

\* the offsets of the configured range the rule decides Update, from the
\* cells of the sheet themselves
UpdateOffsets ==
    {i \in RangeOffsets :
        Decision(KeyAt(i), ExistingAt(i), run.url_mapping) = "Update"}

\* C9: a call that issues a batch write writes exactly the column-L cells
\* start_row + i, with mapping[key of row start_row + i], of the offsets i
\* decided Update, each once in the one batch, and no other cell.
C9_BatchWritesExactlyUpdates ==
    run.write_requests = 1 =>
        /\ {run.data[d] : d \in 1..Len(run.data)} =
               {[row |-> start_row + i, value |-> run.url_mapping[KeyAt(i)]] :
                    i \in UpdateOffsets}
        /\ Len(run.data) = Cardinality(UpdateOffsets)
        /\ \A r \in 1..MaxRow :
             /\ sheet[r].J = sheet_before[r].J
             /\ sheet[r].K = sheet_before[r].K
             /\ sheet[r].L =
                  IF run.write_log = "ok" /\ r - start_row \in UpdateOffsets
                  THEN run.url_mapping[sheet_before[r].J]
                  ELSE sheet_before[r].L

\* a range that does not start at row 1, or whose updated row follows a wholly
\* empty row: the offsets stay aligned
C9_Witness ==
    /\ run.write_log = "ok"
    /\ \E i \in UpdateOffsets :
         /\ i > 0
         /\ sheet_before[start_row + i - 1] =
                [J |-> EmptyStr, K |-> EmptyStr, L |-> EmptyStr]
         /\ sheet[start_row + i].L = run.url_mapping[KeyAt(i)]
         /\ sheet[start_row + i].L # sheet_before[start_row + i].L

\* C10: when the range read yields no rows (an empty range, or a failed read
\* degraded to two empty lists) the call ends before the loop: no decision,
\* no batch write, the miss list not extended and the miss log not written.
C10_NoRowsAborts ==
    (run.read_requests = 1 /\ run.text_ids = << >>) =>
        /\ run.stage = "no_data"
        /\ run.urls_to_update = << >>
        /\ run.skipped_existing = 0
        /\ run.missing_count = 0
        /\ run.write_requests = 0
        /\ run.write_log = "none"
        /\ run.save_log = "none"
        /\ run.missing_after = missing_before
        /\ missing_file = file_before
        /\ sheet = sheet_before

\* a failed read of rows that hold keys, on an object that already holds
\* misses of an earlier call
C10_Witness ==
    /\ run.read_requests = 1
    /\ run.text_ids = << >>
    /\ \E i \in RangeOffsets : ~IsBlank(KeyAt(i))
    /\ missing_before # << >>
    /\ missing_file.exists
====
